---- MODULE Spec2Model ----
(***************************************************************************)
(* Sophia Toolkit: a read-only dashboard over three files written by an    *)
(* external agent.  src/utils/data_loader.py holds the three loaders,      *)
(* src/app.py the three page handlers and the router.                      *)
(*                                                                         *)
(* JSON values are tagged records:                                         *)
(*   [t |-> "null"]  [t |-> "num", n |-> i]  [t |-> "str", s |-> "..."]    *)
(*   [t |-> "list", items |-> <<v, ...>>]                                  *)
(*   [t |-> "obj", items |-> <<[k |-> key, v |-> value], ...>>]            *)
(* A file is missing, unreadable (open raises an OSError other than        *)
(* FileNotFoundError) or text.  A JSON text is "garbage" (the decoder      *)
(* raises JSONDecodeError), "toolarge" (grammatical JSON the decoder       *)
(* refuses with an exception that is not a JSONDecodeError: ValueError for *)
(* an integer over the digit limit, RecursionError for deep nesting) or    *)
(* "json" with the value it decodes to.  A log line may also be "blank".   *)
(***************************************************************************)
EXTENDS Integers, Sequences, FiniteSets, TLC

VARIABLES files, selected_page, ui, loads, crashed

vars == <<files, selected_page, ui, loads, crashed>>

\* ------------------------------------------------------------ bounds

MaxEvents == 2

MaxLogLines == 22

\* ------------------------------------------------------------ constants

NUM_LOG_ENTRIES_DISPLAY == 20

\* ------------------------------------------------------------ JSON values

Null == [t |-> "null"]

Num(i) == [t |-> "num", n |-> i]

Str(x) == [t |-> "str", s |-> x]

List(xs) == [t |-> "list", items |-> xs]

Obj(kvs) == [t |-> "obj", items |-> kvs]

KV(key, val) == [k |-> key, v |-> val]

\* key in d, for a dict d
HasKey(d, key) == \E i \in 1..Len(d.items) : d.items[i].k = key

\* d.get(key, dflt), for a dict d
DictGet(d, key, dflt) ==
    IF HasKey(d, key)
    THEN d.items[CHOOSE i \in 1..Len(d.items) : d.items[i].k = key].v
    ELSE dflt

\* isinstance(v, dict)
IsDict(v) == v.t = "obj"

\* bool(v): Python's truth value of a decoded JSON value
Truthy(v) ==
    CASE v.t = "null" -> FALSE
      [] v.t = "num"  -> v.n # 0
      [] v.t = "str"  -> v.s # ""
      [] v.t = "list" -> Len(v.items) > 0
      [] v.t = "obj"  -> Len(v.items) > 0

\* ------------------------------------------------------------ files

Missing == [kind |-> "missing"]

Unreadable == [kind |-> "unreadable"]

TextFile(content) == [kind |-> "text", content |-> content]

Garbage == [c |-> "garbage"]

TooLarge == [c |-> "toolarge"]

Blank == [c |-> "blank"]

Json(val) == [c |-> "json", v |-> val]

\* open(file_path, 'r'): the exception it raises, or "none"
OpenFile(f) ==
    CASE f.kind = "missing"    -> "FileNotFoundError"
      [] f.kind = "unreadable" -> "PermissionError"
      [] f.kind = "text"       -> "none"

\* json.load / json.loads of one JSON text: the exception, or the value
JsonLoads(text) ==
    CASE text.c = "json"     -> [exc |-> "none", v |-> text.v]
      [] text.c = "garbage"  -> [exc |-> "JSONDecodeError"]
      [] text.c = "blank"    -> [exc |-> "JSONDecodeError"]
      [] text.c = "toolarge" -> [exc |-> "ValueError"]

\* ------------------------------------------------------------ diagnostics

Diag(sev, what) == [w |-> sev, from |-> "loader", msg |-> what]

LineDiag(line_number) ==
    [w |-> "warning", from |-> "loader", msg |-> "line_decode", line |-> line_number]

\* ------------------------------------------------------------ loaders

EthicsDefault == Obj(<<KV("ethical_events", List(<<>>)), KV("trend_analysis", Obj(<<>>))>>)

\* the default of load_knowledge_graph as an empty dict
KGDefaultEmpty == Obj(<<>>)

KGDefault == Obj(<<KV("nodes", List(<<>>)), KV("edges", List(<<>>))>>)

\* a loader's return: the value, the diagnostics it emitted on the way, and
\* the exception that left it ("none": every except clause returns)
Returned(val, diags) == [ret |-> val, diags |-> diags, raised |-> "none"]

\* DocExcept without its last clause, "except Exception"
DocExceptNarrow(exc, dflt) ==
    CASE exc = "FileNotFoundError" -> Returned(dflt, <<Diag("error", "not_found")>>)
      [] exc = "JSONDecodeError"   -> Returned(dflt, <<Diag("error", "decode")>>)
      [] OTHER                     -> [ret |-> Null, diags |-> <<>>, raised |-> exc]

\* the except clauses shared by the two whole-document loaders
DocExcept(exc, dflt) ==
    CASE exc = "FileNotFoundError" -> Returned(dflt, <<Diag("error", "not_found")>>)
      [] exc = "JSONDecodeError"   -> Returned(dflt, <<Diag("error", "decode")>>)
      [] OTHER                     -> Returned(dflt, <<Diag("error", "unexpected")>>)

\* load_ethics_db filling in an absent trend_analysis
load_ethics_db_filling(f) ==
    IF OpenFile(f) # "none" THEN DocExcept(OpenFile(f), EthicsDefault)
    ELSE LET data == JsonLoads(f.content) IN
         IF data.exc # "none" THEN DocExcept(data.exc, EthicsDefault)
         ELSE IF ~IsDict(data.v) \/ ~HasKey(data.v, "ethical_events")
              THEN Returned(EthicsDefault, <<Diag("warning", "schema")>>)
              ELSE IF HasKey(data.v, "trend_analysis") THEN Returned(data.v, <<>>)
              ELSE Returned(Obj(Append(data.v.items, KV("trend_analysis", Obj(<<>>)))), <<>>)

load_ethics_db(f) ==
    IF OpenFile(f) # "none" THEN DocExcept(OpenFile(f), EthicsDefault)
    ELSE LET data == JsonLoads(f.content) IN
         IF data.exc # "none" THEN DocExcept(data.exc, EthicsDefault)
         ELSE IF ~IsDict(data.v) \/ ~HasKey(data.v, "ethical_events")
              THEN Returned(EthicsDefault, <<Diag("warning", "schema")>>)
              ELSE Returned(data.v, <<>>)

load_knowledge_graph(f) ==
    IF OpenFile(f) # "none" THEN DocExcept(OpenFile(f), KGDefault)
    ELSE LET data == JsonLoads(f.content) IN
         IF data.exc # "none" THEN DocExcept(data.exc, KGDefault)
         ELSE IF ~IsDict(data.v) \/ ~HasKey(data.v, "nodes") \/ ~HasKey(data.v, "edges")
              THEN Returned(KGDefault, <<Diag("warning", "schema")>>)
              ELSE Returned(data.v, <<>>)

\* line.strip() is non-empty
Strip(line) == line.c # "blank"

\* the for loop of load_system_event_log from line_number on; an exception
\* that is not a JSONDecodeError leaves the loop for the outer except clause
RECURSIVE LogLoop(_, _, _, _)
LogLoop(lines, line_number, log_entries, diags) ==
    IF line_number > Len(lines) THEN Returned(log_entries, diags)
    ELSE LET line == lines[line_number] IN
         IF ~Strip(line) THEN LogLoop(lines, line_number + 1, log_entries, diags)
         ELSE LET parsed == JsonLoads(line) IN
              CASE parsed.exc = "none" ->
                     LogLoop(lines, line_number + 1, Append(log_entries, parsed.v), diags)
                [] parsed.exc = "JSONDecodeError" ->
                     LogLoop(lines, line_number + 1, log_entries,
                             Append(diags, LineDiag(line_number)))
                [] OTHER ->
                     Returned(<<>>, Append(diags, Diag("error", "unexpected")))

\* load_system_event_log keeping its list across calls (a module-level
\* log_entries, or a mutable default argument)
load_system_event_log_keeping(f) ==
    LET carried == IF selected_page = "System Event Log Viewer" /\ Len(loads) > 0
                   THEN loads[1].ret ELSE <<>>
        fresh == CASE OpenFile(f) = "FileNotFoundError" ->
                        Returned(<<>>, <<Diag("error", "not_found")>>)
                   [] OpenFile(f) = "none" -> LogLoop(f.content, 1, <<>>, <<>>)
                   [] OTHER -> Returned(<<>>, <<Diag("error", "unexpected")>>)
    IN  Returned(carried \o fresh.ret, fresh.diags)

load_system_event_log(f) ==
    CASE OpenFile(f) = "FileNotFoundError" -> Returned(<<>>, <<Diag("error", "not_found")>>)
      [] OpenFile(f) = "none"              -> LogLoop(f.content, 1, <<>>, <<>>)
      [] OTHER                             -> Returned(<<>>, <<Diag("error", "unexpected")>>)

\* ------------------------------------------------------------ widgets

W(kind, what) == [w |-> kind, from |-> "page", msg |-> what]

Metric(label, value) == [w |-> "metric", from |-> "page", label |-> label, value |-> value]

LineChart(series, rows) == [w |-> "line_chart", from |-> "page", series |-> series, rows |-> rows]

Dataframe(rows) == [w |-> "dataframe", from |-> "page", rows |-> rows]

\* one loader call of a render: what it read and what it gave back
Call(loader, f, r) ==
    [loader |-> loader, file |-> f, ret |-> r.ret, diags |-> r.diags, raised |-> r.raised]

\* how a handler ends: what it put on the page, the loader calls it made, and
\* the exception that escaped it ("none" when it ran to completion)
Outcome(widgets, calls, exc) == [ui |-> widgets, loads |-> calls, crashed |-> exc]

\* ------------------------------------------------------------ Python and pandas helpers

\* f"{v:.1f}"
FormatFixed1(v) ==
    CASE v.t = "num" -> [exc |-> "none", s |-> ToString(v.n) \o ".0"]
      [] v.t = "str" -> [exc |-> "ValueError"]
      [] OTHER       -> [exc |-> "TypeError"]

\* f"{v:.2f}": the exception, or the text
FormatFixed2(v) ==
    CASE v.t = "num" -> [exc |-> "none", s |-> ToString(v.n) \o ".00"]
      [] v.t = "str" -> [exc |-> "ValueError"]
      [] OTHER       -> [exc |-> "TypeError"]

\* len(v): the exception, or the length
PyLen(v) ==
    CASE v.t = "list" -> [exc |-> "none", n |-> Len(v.items)]
      [] v.t = "obj"  -> [exc |-> "none", n |-> Len(v.items)]
      [] v.t = "str"  -> [exc |-> "none", n |-> Len(v.s)]
      [] OTHER        -> [exc |-> "TypeError"]

NaT == [nat |-> TRUE]

NaN == [t |-> "nan"]

At(i) == [nat |-> FALSE, at |-> i]

\* pd.to_datetime of one cell: the exception, or the time value
ToDatetime(v) ==
    CASE v.t = "nan"  -> [exc |-> "none", x |-> NaT]
      [] v.t = "null" -> [exc |-> "none", x |-> NaT]
      [] v.t = "num"  -> [exc |-> "none", x |-> At(v.n)]
      [] v.t = "str" /\ v.s = "2023-01-01T12:00:00Z" -> [exc |-> "none", x |-> At(1200)]
      [] v.t = "str" /\ v.s = "2023-01-01T12:05:00Z" -> [exc |-> "none", x |-> At(1205)]
      [] OTHER -> [exc |-> "ValueError"]

\* the columns of pd.DataFrame(records): every key of every record
Columns(records) ==
    UNION { { records[i].items[j].k : j \in 1..Len(records[i].items) } :
            i \in { i \in 1..Len(records) : IsDict(records[i]) } }

\* the cell of a row in a column: NaN where the record lacks the key
Cell(record, column) == IF IsDict(record) THEN DictGet(record, column, NaN) ELSE NaN

\* the order of sort_values: ascending, NaT last
TimeLeq(a, b) == b.nat \/ (~a.nat /\ a.at <= b.at)

\* the rows left in the order of the file
Unsorted(keys) == { [i \in 1..Len(keys) |-> i] }

\* df.sort_values(by=...): every order of the rows that is ascending in the
\* keys (the default sort is not stable: rows with equal keys come in any order)
SortValues(keys) ==
    { p \in [1..Len(keys) -> 1..Len(keys)] :
        /\ \A i, j \in 1..Len(keys) : i # j => p[i] # p[j]
        /\ \A i, j \in 1..Len(keys) : i < j => TimeLeq(keys[p[i]], keys[p[j]]) }

\* df.head(n)
DataFrameHead(rows, n) == IF Len(rows) <= n THEN rows ELSE SubSeq(rows, 1, n)

\* df.tail(n): the last n rows, in their order
DataFrameTail(rows, n) ==
    IF Len(rows) <= n THEN rows ELSE SubSeq(rows, Len(rows) - n + 1, Len(rows))

\* pd.DataFrame(list of records): one row per record, labelled 0, 1, ...
DataFrameRows(records) == [i \in 1..Len(records) |-> [label |-> i - 1, rec |-> records[i]]]

\* ------------------------------------------------------------ page handlers

\* the "Trend Analysis Summary" section of ethical_trends_page: the widgets
\* it renders and the exception that escapes it
TrendSection(ethics_data) ==
    LET trend_summary == DictGet(ethics_data, "trend_analysis", Obj(<<>>))
        head == <<W("subheader", "Trend Analysis Summary")>>
    IN  IF ~Truthy(trend_summary)
        THEN [ui |-> <<W("info", "No trend analysis summary available")>>, exc |-> "none"]
        ELSE IF ~IsDict(trend_summary)
        THEN [ui |-> head, exc |-> "AttributeError"]
        ELSE LET direction == Metric("Current Trend Direction",
                                     DictGet(trend_summary, "current_trend_direction", Str("N/A")))
                 score == FormatFixed2(DictGet(trend_summary,
                                               "short_term_avg_score_t_weighted", Num(0)))
             IN  IF score.exc # "none"
                 THEN [ui |-> head \o <<direction>>, exc |-> score.exc]
                 ELSE [ui |-> head \o <<direction,
                                        Metric("Short-term Avg Score (Time-Weighted)", Str(score.s))>>,
                       exc |-> "none"]

ChartError == W("error", "An error occurred while preparing data for the chart")

\* the chart section of ethical_trends_page: every exception raised in it is
\* caught and rendered, so it only yields widgets; a set, one per sort order
ChartSection(events) ==
    IF ~Truthy(events) THEN { <<W("info", "No ethical events recorded to display")>> }
    ELSE IF events.t # "list" THEN { <<ChartError>> }
    ELSE LET records == events.items
             n == Len(records)
         IN  IF "timestamp" \notin Columns(records)
             THEN { <<W("error", "'timestamp' column missing")>> }
             ELSE IF "final_score" \notin Columns(records)
             THEN { <<W("error", "'final_score' column missing")>> }
             ELSE LET stamps == [i \in 1..n |-> ToDatetime(Cell(records[i], "timestamp"))]
                  IN  IF \E i \in 1..n : stamps[i].exc # "none" THEN { <<ChartError>> }
                      ELSE LET keys == [i \in 1..n |-> stamps[i].x]
                           IN  { << W("subheader", "Ethical Score Over Time"),
                                    LineChart(<<"final_score">>,
                                        [i \in 1..n |-> [label |-> p[i] - 1,
                                                         timestamp |-> keys[p[i]],
                                                         final_score |-> Cell(records[p[i]], "final_score")]]) >>
                                 : p \in SortValues(keys) }

ethical_trends_page(f) ==
    LET r == load_ethics_db(f)
        ethics_data == r.ret
        calls == <<Call("load_ethics_db", f, r)>>
        head == <<W("title", "Ethical Trends Analysis")>> \o r.diags
    IN  IF r.raised # "none" THEN { Outcome(head, calls, r.raised) }
        ELSE IF ~Truthy(ethics_data) \/ ~Truthy(DictGet(ethics_data, "ethical_events", Null))
        THEN { Outcome(head \o <<W("warning", "No ethical events data loaded or data is empty")>>,
                       calls, "none") }
        ELSE LET trend == TrendSection(ethics_data)
             IN  IF trend.exc # "none"
                 THEN { Outcome(head \o trend.ui, calls, trend.exc) }
                 ELSE { Outcome(head \o trend.ui \o chart, calls, "none") :
                        chart \in ChartSection(DictGet(ethics_data, "ethical_events", Null)) }

Placeholder(what) == [w |-> "text_area", from |-> "page", msg |-> what]

knowledge_graph_explorer_page(f) ==
    LET r == load_knowledge_graph(f)
        kg_data == r.ret
        first == <<Call("load_knowledge_graph", f, r)>>
        head == <<W("title", "Knowledge Graph Explorer")>> \o r.diags
    IN  IF r.raised # "none" THEN { Outcome(head, first, r.raised) }
        ELSE IF ~Truthy(kg_data) \/ (~HasKey(kg_data, "nodes") /\ ~HasKey(kg_data, "edges"))
        THEN { Outcome(head \o <<W("warning", "Knowledge graph data could not be loaded or is empty")>>,
                       first, "none") }
        ELSE LET num_nodes == PyLen(DictGet(kg_data, "nodes", List(<<>>)))
                 num_edges == PyLen(DictGet(kg_data, "edges", List(<<>>)))
             IN  IF num_nodes.exc # "none" THEN { Outcome(head, first, num_nodes.exc) }
                 ELSE IF num_edges.exc # "none" THEN { Outcome(head, first, num_edges.exc) }
                 ELSE LET overview == <<W("subheader", "Graph Overview"),
                                        Metric("Total Nodes", Num(num_nodes.n)),
                                        Metric("Total Edges", Num(num_edges.n))>>
                          visual == <<W("subheader", "Visualization"),
                                      Placeholder("Graph Visualization Placeholder")>>
                      IN  IF num_nodes.n = 0 /\ num_edges.n = 0
                          THEN LET again == load_knowledge_graph(f)
                                   hint == IF ~Truthy(again.ret)
                                           THEN <<W("info", "Consider checking file paths or content")>>
                                           ELSE <<>>
                               IN  IF again.raised # "none"
                                   THEN { Outcome(head \o overview \o again.diags,
                                                  Append(first, Call("load_knowledge_graph", f, again)),
                                                  again.raised) }
                                   ELSE { Outcome(head \o overview \o again.diags \o hint \o visual,
                                                  Append(first, Call("load_knowledge_graph", f, again)),
                                                  "none") }
                          ELSE { Outcome(head \o overview \o visual, first, "none") }

system_event_log_viewer_page(f) ==
    LET r == load_system_event_log(f)
        log_entries == r.ret
        calls == <<Call("load_system_event_log", f, r)>>
        head == <<W("title", "System Event Log Viewer")>> \o r.diags
        future == <<W("subheader", "Future Enhancements"),
                    Placeholder("Filtering and Searching Placeholder")>>
    IN  IF r.raised # "none" THEN { Outcome(head, calls, r.raised) }
        ELSE IF Len(log_entries) = 0
        THEN { Outcome(head \o <<W("warning", "No system event log data loaded or the log is empty")>>,
                       calls, "none") }
        ELSE LET table == IF Len(log_entries) > 0
                          THEN <<Dataframe(DataFrameTail(DataFrameRows(log_entries),
                                                         NUM_LOG_ENTRIES_DISPLAY))>>
                          ELSE <<W("info", "Log data is not in the expected list format or is empty")>>
             IN  { Outcome(head \o <<W("subheader", "Last Log Entries")>> \o table \o future,
                           calls, "none") }

\* ------------------------------------------------------------ router

page_options == {"Ethical Trends", "Knowledge Graph Explorer", "System Event Log Viewer"}

\* one script run for the page the sidebar selects: the handler runs from its
\* first line to its return, or to the exception that escapes it
Render(page, outcomes) ==
    \E o \in outcomes :
        /\ selected_page' = page
        /\ ui' = o.ui
        /\ loads' = o.loads
        /\ crashed' = o.crashed
        /\ UNCHANGED files

main ==
    \/ Render("Ethical Trends", ethical_trends_page(files.ethics))
    \/ Render("Knowledge Graph Explorer", knowledge_graph_explorer_page(files.kg))
    \/ Render("System Event Log Viewer", system_event_log_viewer_page(files.log))

\* ------------------------------------------------------------ file contents

Event(stamp, score) == Obj(stamp \o score \o <<KV("description", Str("Event"))>>)

StampChoices ==
    { <<>>,
      <<KV("timestamp", Str("2023-01-01T12:00:00Z"))>>,
      <<KV("timestamp", Str("2023-01-01T12:05:00Z"))>>,
      <<KV("timestamp", Str("not-a-date"))>> }

ScoreChoices == { <<>>, <<KV("final_score", Num(80))>>, <<KV("final_score", Num(70))>> }

Events == { Event(stamp, score) : stamp \in StampChoices, score \in ScoreChoices }

EventLists == UNION { [1..n -> Events] : n \in 0..MaxEvents }

Direction == KV("current_trend_direction", Str("stable"))

Score(val) == KV("short_term_avg_score_t_weighted", val)

TrendChoices ==
    { <<>>,
      <<KV("trend_analysis", Obj(<<>>))>>,
      <<KV("trend_analysis", Obj(<<Direction>>))>>,
      <<KV("trend_analysis", Obj(<<Score(Num(75))>>))>>,
      <<KV("trend_analysis", Obj(<<Direction, Score(Num(75))>>))>>,
      <<KV("trend_analysis", Obj(<<KV("window", Num(5))>>))>>,
      <<KV("trend_analysis", Obj(<<Direction, Score(Str("high"))>>))>>,
      <<KV("trend_analysis", Obj(<<Score(Null)>>))>>,
      <<KV("trend_analysis", List(<<Num(1)>>))>> }

\* documents no loader accepts, and texts no decoder accepts
Failures ==
    { Missing, Unreadable, TextFile(Garbage), TextFile(Blank), TextFile(TooLarge),
      TextFile(Json(List(<<Num(1)>>))), TextFile(Json(Obj(<<KV("version", Num(2))>>))) }

EthicsFiles ==
    Failures
    \cup { TextFile(Json(Obj(<<KV("ethical_events", List(evs))>> \o trend))) :
           evs \in EventLists, trend \in TrendChoices }
    \cup { TextFile(Json(Obj(<<KV("ethical_events", Num(5))>>))),
           TextFile(Json(Obj(<<KV("ethical_events", Null)>>))) }

Event1 == Event(<<KV("timestamp", Str("2023-01-01T12:00:00Z"))>>, <<KV("final_score", Num(80))>>)

SmallEthicsFiles ==
    { Missing, Unreadable, TextFile(Garbage), TextFile(TooLarge),
      TextFile(Json(List(<<>>))),
      TextFile(Json(Obj(<<KV("trend_analysis", Obj(<<Direction>>))>>))),
      TextFile(Json(Obj(<<KV("ethical_events", List(<<>>))>>))),
      TextFile(Json(Obj(<<KV("ethical_events", List(<<Event1>>)), KV("agent", Str("Sophia"))>>))),
      TextFile(Json(Obj(<<KV("ethical_events", List(<<Event1>>)),
                          KV("trend_analysis", Obj(<<Direction, Score(Num(75))>>))>>))),
      TextFile(Json(Obj(<<KV("ethical_events", List(<<Event1>>)),
                          KV("trend_analysis", Obj(<<Score(Str("high"))>>))>>))) }

Node(id) == Obj(<<KV("id", Str(id)), KV("label", Str(id))>>)

Edge(a, b) == Obj(<<KV("source", Str(a)), KV("target", Str(b)), KV("relation", Str("connects_to"))>>)

KGFiles ==
    { Missing, Unreadable, TextFile(Garbage),
      TextFile(Json(Null)),
      TextFile(Json(Obj(<<KV("nodes", List(<<Node("n1")>>))>>))),
      TextFile(Json(Obj(<<KV("edges", List(<<>>))>>))),
      TextFile(Json(Obj(<<KV("nodes", List(<<>>)), KV("edges", List(<<>>))>>))),
      TextFile(Json(Obj(<<KV("nodes", List(<<Node("n1")>>)), KV("edges", List(<<>>))>>))),
      TextFile(Json(Obj(<<KV("nodes", List(<<Node("n1"), Node("n2")>>)),
                          KV("edges", List(<<Edge("n1", "n2"), Edge("n2", "n9")>>)),
                          KV("version", Num(2))>>))),
      TextFile(Json(Obj(<<KV("nodes", Num(5)), KV("edges", List(<<>>))>>))) }

\* the entry on line i of a log: timestamps do not grow with the line number,
\* and every third entry has none
LogEntry(i) ==
    Obj((IF i % 3 = 0 THEN <<>> ELSE <<KV("timestamp", Num((i * 7) % 5))>>)
        \o <<KV("event_type", Str("INFO")), KV("message", Num(i))>>)

BadLines == { Blank, Garbage, TooLarge }

\* the logs of n lines: every line an entry, or all but one
LogsOf(n) ==
    { [i \in 1..n |-> Json(LogEntry(i))] }
    \cup { [i \in 1..n |-> IF i = at THEN line ELSE Json(LogEntry(i))] :
           at \in 1..n, line \in BadLines }

LogFiles ==
    { Missing, Unreadable }
    \cup { TextFile(lines) : lines \in UNION { LogsOf(n) : n \in 0..MaxLogLines } }

SmallLogFiles ==
    { Missing, Unreadable, TextFile(<<>>), TextFile(<<Blank>>),
      TextFile(<<Json(LogEntry(1))>>),
      TextFile(<<Json(LogEntry(1)), Json(LogEntry(2)), Garbage, Json(LogEntry(4))>>),
      TextFile(<<Garbage, Blank, Garbage, Json(Num(7))>>),
      TextFile(<<Json(LogEntry(1)), TooLarge, Json(LogEntry(3))>>) }

\* ------------------------------------------------------------ the external agent

\* the agent that owns the files rewrites, removes or protects one of them
WriteEthicsDb ==
    /\ \E f \in SmallEthicsFiles : files' = [files EXCEPT !.ethics = f]
    /\ UNCHANGED <<selected_page, ui, loads, crashed>>

WriteKnowledgeGraph ==
    /\ \E f \in KGFiles : files' = [files EXCEPT !.kg = f]
    /\ UNCHANGED <<selected_page, ui, loads, crashed>>

WriteSystemEventLog ==
    /\ \E f \in SmallLogFiles : files' = [files EXCEPT !.log = f]
    /\ UNCHANGED <<selected_page, ui, loads, crashed>>

\* ------------------------------------------------------------ specifications

NothingRendered ==
    /\ selected_page = "none"
    /\ ui = <<>>
    /\ loads = <<>>
    /\ crashed = "none"

\* the dashboard beside an agent that changes the three files between renders
Init ==
    /\ files = [ethics |-> Missing, kg |-> Missing, log |-> Missing]
    /\ NothingRendered

Next ==
    \/ WriteEthicsDb
    \/ WriteKnowledgeGraph
    \/ WriteSystemEventLog
    \/ main

Spec == Init /\ [][Next]_vars

\* the dashboard over any ethics file, rendered again and again
InitEthics ==
    /\ \E f \in EthicsFiles : files = [ethics |-> f, kg |-> Missing, log |-> Missing]
    /\ NothingRendered

SpecEthics == InitEthics /\ [][main]_vars

\* the dashboard over any log of up to MaxLogLines lines
InitLog ==
    /\ \E f \in LogFiles : files = [ethics |-> Missing, kg |-> Missing, log |-> f]
    /\ NothingRendered

SpecLog == InitLog /\ [][main]_vars

\* ------------------------------------------------------------ claims

InUi(widget) == \E i \in 1..Len(ui) : ui[i] = widget

CallsOf(loader) == { i \in 1..Len(loads) : loads[i].loader = loader }

NotFound == [w |-> "error", from |-> "loader", msg |-> "not_found"]

Decodes(f) == f.kind = "text" /\ f.content.c = "json"

RECURSIVE ValidLines(_)
ValidLines(lines) ==
    IF lines = <<>> THEN <<>>
    ELSE IF Head(lines).c \in {"json", "toolarge"}
         THEN <<Head(lines)>> \o ValidLines(Tail(lines))
         ELSE ValidLines(Tail(lines))

\* one warning per line that is neither blank nor JSON, naming its number
RECURSIVE LineWarnings(_, _)
LineWarnings(lines, from) ==
    IF from > Len(lines) THEN <<>>
    ELSE IF lines[from].c = "garbage"
         THEN <<[w |-> "warning", from |-> "loader", msg |-> "line_decode", line |-> from]>>
              \o LineWarnings(lines, from + 1)
         ELSE LineWarnings(lines, from + 1)

\* C3: for every readable file load_system_event_log returns one entry per
\* non-blank line that is valid JSON, in file order (the decoded value of the
\* line), skips every other non-blank line with exactly one diagnostic naming
\* its 1-based line number, and gives blank lines neither.
C3_LineTolerantLog ==
    \A i \in CallsOf("load_system_event_log") :
        loads[i].file.kind = "text" =>
            LET lines == loads[i].file.content
                valid == ValidLines(lines)
            IN  /\ Len(loads[i].ret) = Len(valid)
                /\ \A k \in 1..Len(valid) :
                     valid[k].c = "json" /\ k <= Len(loads[i].ret) => loads[i].ret[k] = valid[k].v
                /\ loads[i].diags = LineWarnings(lines, 1)

\* C4: every page handler runs to completion, whatever the three files hold:
\* no exception escapes a render.
C4_NeverCrashes == crashed = "none"

\* the loader of each page
LoaderOf(page) ==
    CASE page = "Ethical Trends" -> "load_ethics_db"
      [] page = "Knowledge Graph Explorer" -> "load_knowledge_graph"
      [] page = "System Event Log Viewer" -> "load_system_event_log"

\* C6: a render of a page runs that page's loader exactly once, and no other
\* loader; its diagnostics are on the page once.
C6_OneLoadPerRender ==
    selected_page # "none" =>
        /\ Len(loads) = 1
        /\ loads[1].loader = LoaderOf(selected_page)
        /\ \A d \in { loads[1].diags[k] : k \in 1..Len(loads[1].diags) } :
             Cardinality({ i \in 1..Len(ui) : ui[i] = d }) = 1

\* the file each loader reads
FileOf(loader, fs) ==
    CASE loader = "load_ethics_db" -> fs.ethics
      [] loader = "load_knowledge_graph" -> fs.kg
      [] loader = "load_system_event_log" -> fs.log

\* two loader calls agree when they read the same content
SameFileSameResult(a, b) ==
    a.loader = b.loader /\ a.file = b.file => a.ret = b.ret /\ a.diags = b.diags

KGWarning == [w |-> "warning", from |-> "page",
              msg |-> "Knowledge graph data could not be loaded or is empty"]

TotalOf(label, count) ==
    [w |-> "metric", from |-> "page", label |-> label, value |-> [t |-> "num", n |-> count]]

EthicsLoaded ==
    /\ selected_page = "Ethical Trends"
    /\ loads[1].diags = <<>>
    /\ DictGet(loads[1].ret, "ethical_events", Null).t = "list"
    /\ Len(DictGet(loads[1].ret, "ethical_events", Null).items) > 0

\* what the file gives for trend_analysis, an absent one read as the empty mapping
TrendOf(doc) == DictGet(doc, "trend_analysis", [t |-> "obj", items |-> <<>>])

DirectionMetric(text) ==
    [w |-> "metric", from |-> "page", label |-> "Current Trend Direction",
     value |-> [t |-> "str", s |-> text]]

ScoreMetric(text) ==
    [w |-> "metric", from |-> "page", label |-> "Short-term Avg Score (Time-Weighted)",
     value |-> [t |-> "str", s |-> text]]

Metrics == { i \in 1..Len(ui) : ui[i].w = "metric" }

\* C5 as stated: with a non-empty ethical_events the page renders the two
\* headline metrics, "N/A" for an absent current_trend_direction and 0.00 for
\* an absent short_term_avg_score_t_weighted, also when trend_analysis itself
\* is absent, and it does not error.  (Taken over the files whose
\* trend_analysis is absent or a mapping whose score is absent or a number.)
C5_MetricsAlwaysRendered ==
    LET trend == TrendOf(loads[1].ret)
    IN  /\ EthicsLoaded
        /\ trend.t = "obj"
        /\ DictGet(trend, "short_term_avg_score_t_weighted", Num(0)).t = "num"
        => /\ crashed = "none"
           /\ Cardinality(Metrics) = 2
           /\ ~HasKey(trend, "current_trend_direction") => InUi(DirectionMetric("N/A"))
           /\ ~HasKey(trend, "short_term_avg_score_t_weighted") => InUi(ScoreMetric("0.00"))

\* C5 amended: with a non-empty ethical_events and a trend_analysis that is a
\* non-empty mapping, an absent current_trend_direction is shown as "N/A" and
\* an absent short_term_avg_score_t_weighted as 0.00, and the render does not
\* error when the score is absent or a number; when trend_analysis is absent
\* or an empty mapping no metric is rendered, the page shows the notice "No
\* trend analysis summary available" instead, and the render does not error.
C5_MetricsWhenSummaryPresent ==
    LET trend == TrendOf(loads[1].ret)
    IN  EthicsLoaded /\ trend.t = "obj" =>
          IF Len(trend.items) = 0
          THEN /\ Metrics = {}
               /\ InUi([w |-> "info", from |-> "page", msg |-> "No trend analysis summary available"])
               /\ crashed = "none"
          ELSE /\ ~HasKey(trend, "current_trend_direction") => InUi(DirectionMetric("N/A"))
               /\ ~HasKey(trend, "short_term_avg_score_t_weighted") =>
                    InUi(ScoreMetric("0.00")) /\ crashed = "none"
               /\ DictGet(trend, "short_term_avg_score_t_weighted", Num(0)).t = "num" =>
                    Cardinality(Metrics) = 2 /\ crashed = "none"

\* a summary with neither value was rendered as "N/A" and 0.00
C5_Witness ==
    /\ EthicsLoaded
    /\ Len(TrendOf(loads[1].ret).items) > 0
    /\ ~HasKey(TrendOf(loads[1].ret), "current_trend_direction")
    /\ ~HasKey(TrendOf(loads[1].ret), "short_term_avg_score_t_weighted")
    /\ InUi(DirectionMetric("N/A"))
    /\ InUi(ScoreMetric("0.00"))

\* the event records the page charts
Records == DictGet(loads[1].ret, "ethical_events", Null).items

SomeRecordHas(key) == \E i \in 1..Len(Records) : HasKey(Records[i], key)

Charts == { i \in 1..Len(ui) : ui[i].w = "line_chart" }

PageError(what) == [w |-> "error", from |-> "page", msg |-> what]

\* the chart plots final_score alone, one row per event, ascending in time
ChartOfAllEvents ==
    /\ Cardinality(Charts) = 1
    /\ \A c \in Charts :
         LET rows == ui[c].rows
         IN  /\ ui[c].series = <<"final_score">>
             /\ Len(rows) = Len(Records)
             /\ { rows[k].label : k \in 1..Len(rows) } = 0..(Len(Records) - 1)
             /\ \A k \in 1..Len(rows) :
                  LET rec == Records[rows[k].label + 1]
                  IN  /\ rows[k].final_score = DictGet(rec, "final_score", [t |-> "nan"])
                      /\ rows[k].timestamp =
                           ToDatetime(DictGet(rec, "timestamp", [t |-> "nan"])).x
             /\ \A k \in 1..(Len(rows) - 1) :
                  \/ rows[k + 1].timestamp.nat
                  \/ /\ ~rows[k].timestamp.nat
                     /\ rows[k].timestamp.at <= rows[k + 1].timestamp.at

\* C9 as stated, over the renders that ran to completion: with a non-empty
\* ethical_events, an absent timestamp or final_score gives the error naming
\* that field (timestamp first) and no chart; otherwise the chart plots
\* final_score over all events ascending by timestamp.
C9_ErrorOrSortedChart ==
    EthicsLoaded /\ crashed = "none" =>
        IF ~SomeRecordHas("timestamp")
        THEN InUi(PageError("'timestamp' column missing")) /\ Charts = {}
        ELSE IF ~SomeRecordHas("final_score")
        THEN InUi(PageError("'final_score' column missing")) /\ Charts = {}
        ELSE ChartOfAllEvents

\* every timestamp the records carry converts to a time
StampsConvert ==
    \A i \in 1..Len(Records) :
        ToDatetime(DictGet(Records[i], "timestamp", [t |-> "nan"])).exc = "none"

ChartSectionErrors ==
    { i \in 1..Len(ui) : ui[i].w = "error" /\ ui[i].from = "page" }

\* C9 amended: with a non-empty ethical_events, if the render gets past the
\* trend summary: when no event record has a timestamp the error naming
\* timestamp is rendered and no chart; else when no record has a final_score
\* the error naming final_score and no chart; else when a timestamp does not
\* convert to a time the generic chart error and no chart; else the chart
\* plots final_score alone over all events ascending by time, the events
\* without a timestamp last.  If the trend summary raised, neither a chart nor
\* a chart error is rendered.
C9_ErrorOrSortedChartOrGenericError ==
    EthicsLoaded =>
        IF crashed # "none" THEN Charts = {} /\ ChartSectionErrors = {}
        ELSE IF ~SomeRecordHas("timestamp")
        THEN InUi(PageError("'timestamp' column missing")) /\ Charts = {}
        ELSE IF ~SomeRecordHas("final_score")
        THEN InUi(PageError("'final_score' column missing")) /\ Charts = {}
        ELSE IF ~StampsConvert
        THEN InUi(PageError("An error occurred while preparing data for the chart"))
             /\ Charts = {}
        ELSE ChartOfAllEvents

\* a chart whose first row is the second event of the file
C9_Witness ==
    /\ EthicsLoaded
    /\ crashed = "none"
    /\ \E c \in Charts :
         /\ Len(ui[c].rows) = 2
         /\ ui[c].rows[1].label = 1
         /\ ~ui[c].rows[2].timestamp.nat
         /\ ui[c].rows[1].timestamp.at < ui[c].rows[2].timestamp.at

Tables == { i \in 1..Len(ui) : ui[i].w = "dataframe" }

\* C7: with n >= 1 loaded entries the log page shows one table holding exactly
\* the last min(n, 20) of them in the order they were loaded; with n = 0 it
\* shows the "no data" notice and no table.
C7_LastTwentyInFileOrder ==
    selected_page = "System Event Log Viewer" =>
        LET entries == loads[1].ret
            n == Len(entries)
            m == IF n < 20 THEN n ELSE 20
        IN  IF n = 0
            THEN /\ Tables = {}
                 /\ InUi([w |-> "warning", from |-> "page",
                          msg |-> "No system event log data loaded or the log is empty"])
            ELSE /\ Cardinality(Tables) = 1
                 /\ \A t \in Tables :
                      /\ Len(ui[t].rows) = m
                      /\ \A k \in 1..m : ui[t].rows[k].rec = entries[n - m + k]

\* more than 20 entries were loaded and the table holds 20 of them
C7_Witness ==
    /\ selected_page = "System Event Log Viewer"
    /\ Len(loads[1].ret) > 20
    /\ \E t \in Tables : Len(ui[t].rows) = 20

====
